---- MODULE Spec2Model ----
(***************************************************************************)
(* A model of the chatgpt-agent microservice (src/main.py).                *)
(*                                                                         *)
(* Three specifications share this module:                                 *)
(*   Spec         the /stream relay, the generator stream.event_gen        *)
(*   SpecApi      request validation and the /prompt, /chat and /stream    *)
(*                handlers up to their upstream call                       *)
(*   SpecExtract  the helper _out_text_from_response                       *)
(*                                                                         *)
(* Text is a sequence of one-character strings, so that concatenation,     *)
(* joining and stripping are computed rather than assumed.                 *)
(***************************************************************************)
EXTENDS Integers, Sequences, FiniteSets, TLC

VARIABLES
    pc,         \* Spec: position of event_gen: "start", "iter" or "done"
    fed,        \* Spec: the upstream events the for loop has received so far
    final_buf,  \* Spec: the local list final_buf
    out,        \* Spec: the chunks event_gen has yielded so far
    raised,     \* Spec: whether the try block was left by an exception
    errmsg,     \* Spec: str(e) of that exception
    apc,        \* SpecApi: "idle", "received" or "responded"
    req,        \* SpecApi: the request body being served
    status,     \* SpecApi: HTTP status of the response (0 while none)
    calls,      \* SpecApi: the client.responses.create calls made for req
    reply,      \* SpecApi: the response body
    xpc,        \* SpecExtract: "idle" or "returned"
    resp,       \* SpecExtract: the upstream response object
    result      \* SpecExtract: what _out_text_from_response did

streamVars == <<pc, fed, final_buf, out, raised, errmsg>>
apiVars == <<apc, req, status, calls, reply>>
extractVars == <<xpc, resp, result>>
vars == <<pc, fed, final_buf, out, raised, errmsg, apc, req, status, calls,
          reply, xpc, resp, result>>

---------------------------------------------------------------------------
(* Text helpers.                                                           *)

\* Defect variant of Concat: the parts are joined last to first.
RECURSIVE ConcatRev(_)
ConcatRev(parts) ==
    IF parts = <<>> THEN <<>>
    ELSE ConcatRev(Tail(parts)) \o Head(parts)

\* "".join(parts)
RECURSIVE Concat(_)
Concat(parts) ==
    IF parts = <<>> THEN <<>>
    ELSE Head(parts) \o Concat(Tail(parts))

---------------------------------------------------------------------------
(* Python values that the code inspects dynamically (getattr, truthiness). *)

Absent == [t |-> "absent"]          \* the attribute does not exist
PyNone == [t |-> "None"]
PyStr(s) == [t |-> "str", v |-> s]
PyInt(n) == [t |-> "int", v |-> n]

\* getattr(obj, name, default), given the attribute's value or Absent
GetAttr(v, default) == IF v = Absent THEN default ELSE v

\* bool(v)
Truthy(v) ==
    CASE v.t = "None" -> FALSE
      [] v.t = "str" -> v.v # <<>>
      [] v.t = "int" -> v.v # 0
      [] v.t = "list" -> v.v # <<>>
      [] OTHER -> TRUE

---------------------------------------------------------------------------
(* The /stream relay: stream.event_gen, src/main.py lines 138-162.         *)

MaxEvents == 4      \* upstream events delivered to one relay

He == <<"H", "e">>
llo == <<"l", "l", "o">>
Fragments == {He, llo}
ErrMsgs == {<<"b", "o", "o", "m">>, <<"t", "i", "m", "e", "o", "u", "t">>}

DELTA == "response.output_text.delta"
COMPLETED == "response.completed"
NoType == "<no type attribute>"

\* What the upstream iterator can deliver.
UpstreamEvents ==
    [type : {DELTA},
     delta : {PyStr(f) : f \in Fragments} \cup {PyStr(<<>>), PyNone, Absent}]
    \cup [type : {COMPLETED, "response.created", NoType}, delta : {Absent}]

\* One yielded chunk: the SSE event name ("message" when the frame has only a
\* data: line) and the single key and value of the JSON object in data:.
DataFrame(key, value) == [event |-> "message", key |-> key, value |-> value]

\* Defect variant of ErrorFrame: the error is sent as a final event.
ErrorFrame_AsFinal(msg) == [event |-> "message", key |-> "final", value |-> msg]

\* line 162: event: error, data: {"error": str(e)}
ErrorFrame(msg) == [event |-> "error", key |-> "error", value |-> msg]

\* delta = getattr(event, "delta", "") or ""
DeltaOf(e) ==
    LET d == GetAttr(e.delta, PyStr(<<>>))
    IN  IF Truthy(d) THEN d ELSE PyStr(<<>>)

StreamInit ==
    /\ pc = "start"
    /\ fed = <<>>
    /\ final_buf = <<>>
    /\ out = <<>>
    /\ raised = FALSE
    /\ errmsg = <<>>

\* client.responses.create(..., stream=True) returns; final_buf = []
OpenStream ==
    /\ pc = "start"
    /\ pc' = "iter"
    /\ final_buf' = <<>>
    /\ UNCHANGED <<fed, out, raised, errmsg>>

\* client.responses.create raises: the except clause yields the error frame
OpenRaise(msg) ==
    /\ pc = "start"
    /\ pc' = "done"
    /\ raised' = TRUE
    /\ errmsg' = msg
    /\ out' = Append(out, ErrorFrame(msg))
    /\ UNCHANGED <<fed, final_buf>>

\* one pass of the body of "for event in stream"
OnEvent(e) ==
    /\ pc = "iter"
    /\ Len(fed) < MaxEvents
    /\ fed' = Append(fed, e)
    /\ IF e.type = DELTA
       THEN LET delta == DeltaOf(e)
            IN  IF Truthy(delta)
                THEN /\ final_buf' = Append(final_buf, delta.v)
                     /\ out' = Append(out, DataFrame("delta", delta.v))
                ELSE UNCHANGED <<final_buf, out>>
       ELSE IF e.type = COMPLETED
       THEN /\ out' = Append(out, DataFrame("final", Concat(final_buf)))
            /\ UNCHANGED final_buf
       ELSE UNCHANGED <<final_buf, out>>
    /\ UNCHANGED <<pc, raised, errmsg>>

\* the iterator raises: the except clause yields the error frame
IterRaise(msg) ==
    /\ pc = "iter"
    /\ pc' = "done"
    /\ raised' = TRUE
    /\ errmsg' = msg
    /\ out' = Append(out, ErrorFrame(msg))
    /\ UNCHANGED <<fed, final_buf>>

\* the iterator is exhausted: the loop and the generator end
Exhausted ==
    /\ pc = "iter"
    /\ pc' = "done"
    /\ UNCHANGED <<fed, final_buf, out, raised, errmsg>>

---------------------------------------------------------------------------
(* Text extraction: _out_text_from_response, src/main.py lines 31-51.      *)

MaxItems == 3       \* items in resp.output

NL == "\n"
Whitespace == {" ", NL, "\t"}
TextA == <<"A">>
TextB == <<"B">>

PyList(items) == [t |-> "list", v |-> items]
\* an object with a value attribute (or without one: value = Absent)
PyObj(value) == [t |-> "obj", value |-> value]

RECURSIVE LStrip(_)
LStrip(s) ==
    IF s # <<>> /\ Head(s) \in Whitespace THEN LStrip(Tail(s)) ELSE s

RECURSIVE RStrip(_)
RStrip(s) ==
    IF s # <<>> /\ s[Len(s)] \in Whitespace
    THEN RStrip(SubSeq(s, 1, Len(s) - 1))
    ELSE s

\* str.strip()
Strip(s) == RStrip(LStrip(s))

\* "\n".join(parts)
RECURSIVE JoinNewline(_)
JoinNewline(parts) ==
    IF parts = <<>> THEN <<>>
    ELSE IF Len(parts) = 1 THEN Head(parts)
    ELSE Head(parts) \o <<NL>> \o JoinNewline(Tail(parts))

\* getattr(t, "value", None): only an object can have the attribute
ValueOf(t) == IF t.t = "obj" THEN GetAttr(t.value, PyNone) ELSE PyNone

\* the for loop of lines 43-46: the list out after walking items
RECURSIVE CollectValues(_)
CollectValues(items) ==
    IF items = <<>> THEN <<>>
    ELSE LET t == GetAttr(Head(items).text, PyNone)
         IN  IF Truthy(t) /\ Truthy(ValueOf(t))
             THEN <<ValueOf(t)>> \o CollectValues(Tail(items))
             ELSE CollectValues(Tail(items))

\* The body of the try block, lines 41-48. exc: it raised; returned: it
\* reached the return of line 48 with value.
TryWalk(r) ==
    LET o == GetAttr(r.output, PyNone)
        output == IF Truthy(o) THEN o ELSE PyList(<<>>)
    IN  IF output.t # "list"
        THEN [exc |-> TRUE, returned |-> FALSE, value |-> <<>>]   \* not iterable
        ELSE LET vals == CollectValues(output.v)
             IN  IF vals = <<>>
                 THEN [exc |-> FALSE, returned |-> FALSE, value |-> <<>>]
                 ELSE IF \E i \in DOMAIN vals : vals[i].t # "str"
                 THEN [exc |-> TRUE, returned |-> FALSE, value |-> <<>>]  \* join
                 ELSE [exc |-> FALSE, returned |-> TRUE,
                       value |-> JoinNewline([i \in DOMAIN vals |-> vals[i].v])]

\* Defect variant of OutTextFromResponse: the try block has no except clause.
OutTextFromResponse_NoExcept(r) ==
    LET text == GetAttr(r.output_text, PyNone)
    IN  IF text.t = "str" /\ Strip(text.v) # <<>>
        THEN [raised |-> FALSE, value |-> text.v]
        ELSE LET w == TryWalk(r)
             IN  IF w.exc THEN [raised |-> TRUE, value |-> <<>>]
                 ELSE IF w.returned THEN [raised |-> FALSE, value |-> w.value]
                 ELSE [raised |-> FALSE, value |-> <<>>]

\* _out_text_from_response(resp): raised tells whether an exception left the
\* function, value is the returned text.
OutTextFromResponse(r) ==
    LET text == GetAttr(r.output_text, PyNone)
    IN  IF text.t = "str" /\ Strip(text.v) # <<>>
        THEN [raised |-> FALSE, value |-> text.v]
        ELSE LET w == TryWalk(r)
             IN  IF w.exc THEN [raised |-> FALSE, value |-> <<>>]   \* except: pass
                 ELSE IF w.returned THEN [raised |-> FALSE, value |-> w.value]
                 ELSE [raised |-> FALSE, value |-> <<>>]

ItemTexts ==
    {Absent, PyNone, PyStr(TextA), PyObj(Absent), PyObj(PyStr(<<>>)),
     PyObj(PyStr(TextA)), PyObj(PyStr(TextB)), PyObj(PyInt(5))}

Items == [text : ItemTexts]

ItemLists == UNION {[1..n -> Items] : n \in 0..MaxItems}

OutputTexts ==
    {Absent, PyNone, PyInt(5), PyStr(<<>>), PyStr(<<" ">>), PyStr(<<"T">>),
     PyStr(<<" ", "T">>)}

Responses ==
    [output_text : OutputTexts,
     output : {Absent, PyNone, PyInt(5)} \cup {PyList(l) : l \in ItemLists}]

NoResp == [output_text |-> Absent, output |-> Absent]
NoResult == [raised |-> FALSE, value |-> <<>>]

ExtractInit ==
    /\ xpc = "idle"
    /\ resp = NoResp
    /\ result = NoResult

\* a caller passes some response r to _out_text_from_response
Extract ==
    /\ xpc = "idle"
    /\ \E r \in Responses :
          /\ resp' = r
          /\ result' = OutTextFromResponse(r)
    /\ xpc' = "returned"

\* the caller takes the result; the next call can start
ExtractDone ==
    /\ xpc = "returned"
    /\ xpc' = "idle"
    /\ resp' = NoResp
    /\ result' = NoResult

---------------------------------------------------------------------------
(* Request schemas and the route handlers, src/main.py lines 57-162.       *)
(* temperature is counted in tenths: 0.3 is 3, 2.0 is 20.                  *)

MaxMsgs == 3        \* messages in one /chat request

MinTokens == 1
MaxTokens == 8192
DefaultTokens == 1024
MinTempTenths == 0
MaxTempTenths == 20
DefaultTempTenths == 3

DEFAULT_MODEL == PyStr(<<"gpt-4o-mini">>)

AllowedRoles == {"system", "developer", "user", "assistant"}
RoleValues == AllowedRoles \cup {"tool", "User"}
Contents == {<<"a">>, <<"b">>}
UserPrefix == <<"U", "s", "e", "r">>
AssistantPrefix == <<"A", "s", "s", "i", "s", "t", "a", "n", "t">>

TokenInputs ==
    {Absent, PyNone, PyInt(0), PyInt(MinTokens), PyInt(MaxTokens),
     PyInt(MaxTokens + 1)}
TempInputs == {Absent, PyInt(MaxTempTenths), PyInt(MaxTempTenths + 1)}
ModelInputs == {Absent, PyStr(<<"gpt-4o">>)}

\* JSON bodies sent to /prompt and /stream
PromptBodies ==
    [prompt : {Absent, PyStr(<<>>), PyStr(<<"h", "i">>)},
     model : ModelInputs,
     system : {Absent, PyStr(<<"s">>)},
     max_output_tokens : TokenInputs,
     temperature : TempInputs]

Messages == [role : RoleValues, content : Contents]
MessageLists == UNION {[1..n -> Messages] : n \in 0..MaxMsgs}

\* JSON bodies sent to /chat
ChatBodies ==
    [messages : {Absent} \cup {PyList(l) : l \in MessageLists},
     model : ModelInputs,
     max_output_tokens : TokenInputs,
     temperature : TempInputs]

\* Optional[int] = Field(default, ge=lo, le=hi)
OptionalInRange(v, lo, hi) ==
    \/ v \in {Absent, PyNone}
    \/ v.t = "int" /\ lo <= v.v /\ v.v <= hi

\* Optional[int] = default, no constraint
OptionalNumber(v) == v \in {Absent, PyNone} \/ v.t = "int"

\* class PromptRequest
ValidPromptRequest(b) ==
    /\ b.prompt.t = "str"                   \* prompt: str = Field(...)
    /\ OptionalInRange(b.max_output_tokens, MinTokens, MaxTokens)
    /\ OptionalInRange(b.temperature, MinTempTenths, MaxTempTenths)

\* Defect variant of RolePattern: the role field has no pattern.
RolePattern_Any(role) == TRUE

\* pattern="^(system|developer|user|assistant)$"
RolePattern(role) == role \in {"system", "developer", "user", "assistant"}

\* class ChatMessage
ValidChatMessage(m) == RolePattern(m.role)

\* class ChatRequest
ValidChatRequest(b) ==
    /\ b.messages.t = "list"                \* messages: List[...] = Field(...)
    /\ \A i \in DOMAIN b.messages.v : ValidChatMessage(b.messages.v[i])
    /\ OptionalNumber(b.max_output_tokens)
    /\ OptionalNumber(b.temperature)

\* the value of a validated field: the default when the body omits it
FieldValue(v, default) == IF v = Absent THEN default ELSE v

\* Python's "a or b"
Or(a, b) == IF Truthy(a) THEN a ELSE b

\* Defect variant of FoldLoop: each part is put in front of its list.
RECURSIVE FoldLoop_Prepend(_, _, _)
FoldLoop_Prepend(msgs, sys_parts, convo) ==
    IF msgs = <<>> THEN [sys_parts |-> sys_parts, convo |-> convo]
    ELSE LET m == Head(msgs)
         IN  IF m.role \in {"system", "developer"}
             THEN FoldLoop_Prepend(Tail(msgs), <<m.content>> \o sys_parts,
                                   convo)
             ELSE LET prefix == IF m.role = "user" THEN UserPrefix
                                ELSE AssistantPrefix
                  IN  FoldLoop_Prepend(Tail(msgs), sys_parts,
                          <<prefix \o <<":", " ">> \o m.content>> \o convo)

\* the for loop of lines 108-113, given the lists built so far
RECURSIVE FoldLoop(_, _, _)
FoldLoop(msgs, sys_parts, convo) ==
    IF msgs = <<>> THEN [sys_parts |-> sys_parts, convo |-> convo]
    ELSE LET m == Head(msgs)
         IN  IF m.role \in {"system", "developer"}
             THEN FoldLoop(Tail(msgs), Append(sys_parts, m.content), convo)
             ELSE LET prefix == IF m.role = "user" THEN UserPrefix
                                ELSE AssistantPrefix
                  IN  FoldLoop(Tail(msgs), sys_parts,
                               Append(convo, prefix \o <<":", " ">> \o m.content))

\* lines 106-116: instructions and input_blob
Fold(msgs) ==
    LET f == FoldLoop(msgs, <<>>, <<>>)
    IN  [instructions |-> IF f.sys_parts # <<>>
                          THEN PyStr(JoinNewline(f.sys_parts)) ELSE PyNone,
         input_blob |-> IF f.convo # <<>> THEN JoinNewline(f.convo) ELSE <<>>]

\* the arguments of client.responses.create in prompt and event_gen
PromptCall(b, streaming) ==
    [model |-> Or(FieldValue(b.model, PyNone), DEFAULT_MODEL),
     instructions |-> Or(FieldValue(b.system, PyNone), PyNone),
     input |-> b.prompt.v,
     temperature |-> Or(FieldValue(b.temperature, PyInt(DefaultTempTenths)),
                        PyInt(DefaultTempTenths)),
     max_output_tokens |-> Or(FieldValue(b.max_output_tokens, PyInt(DefaultTokens)),
                              PyInt(DefaultTokens)),
     stream |-> streaming]

\* the arguments of client.responses.create in chat
ChatCall(b) ==
    [model |-> Or(FieldValue(b.model, PyNone), DEFAULT_MODEL),
     instructions |-> Fold(b.messages.v).instructions,
     input |-> Fold(b.messages.v).input_blob,
     temperature |-> Or(FieldValue(b.temperature, PyInt(DefaultTempTenths)),
                        PyInt(DefaultTempTenths)),
     max_output_tokens |-> Or(FieldValue(b.max_output_tokens, PyInt(DefaultTokens)),
                              PyInt(DefaultTokens)),
     stream |-> FALSE]

\* What a non-streaming upstream call can do: raise, or return a response.
ApiResponses ==
    {[output_text |-> PyStr(<<"T">>), output |-> Absent],
     [output_text |-> PyStr(<<>>),
      output |-> PyList(<<[text |-> PyObj(PyStr(TextA))],
                          [text |-> PyObj(PyStr(TextB))]>>)]}
UpstreamOutcomes ==
    [raises : {TRUE}, msg : {<<"b", "o", "o", "m">>}, resp : {NoResp}]
    \cup [raises : {FALSE}, msg : {<<>>}, resp : ApiResponses]

NoReq == [endpoint |-> "none", body |-> Absent]
NoReply == [kind |-> "none"]

\* FastAPI's 422 body (the field-level detail is not modelled)
ValidationReply == [kind |-> "validation error"]

\* _err(str(e)): HTTPException(500, {"code": ..., "message": ...})
ErrReply(msg) == [kind |-> "detail", code |-> "GENERATION_ERROR", message |-> msg]

OkReply(model, output) == [kind |-> "ok", model |-> model, output |-> output]

ApiInit ==
    /\ apc = "idle"
    /\ req = NoReq
    /\ status = 0
    /\ calls = <<>>
    /\ reply = NoReply

Valid(r) ==
    IF r.endpoint = "chat" THEN ValidChatRequest(r.body)
    ELSE ValidPromptRequest(r.body)

\* a POST with some JSON body arrives at endpoint
Receive(endpoint, bodies) ==
    /\ apc = "idle"
    /\ \E b \in bodies : req' = [endpoint |-> endpoint, body |-> b]
    /\ apc' = "received"
    /\ UNCHANGED <<status, calls, reply>>

\* the body fails the endpoint's schema: 422, the handler is not called
Reject ==
    /\ apc = "received"
    /\ ~Valid(req)
    /\ apc' = "responded"
    /\ status' = 422
    /\ reply' = ValidationReply
    /\ UNCHANGED <<req, calls>>

\* lines 86-96 and 118-128: the upstream call and what the handler returns
Respond(call, o) ==
    /\ calls' = Append(calls, call)
    /\ IF o.raises
       THEN status' = 500 /\ reply' = ErrReply(o.msg)
       ELSE LET text == OutTextFromResponse(o.resp)
            IN  IF text.raised
                THEN status' = 500 /\ reply' = ErrReply(<<>>)
                ELSE status' = 200 /\ reply' = OkReply(call.model, text.value)

\* def prompt(req)
Prompt(o) ==
    /\ apc = "received"
    /\ req.endpoint = "prompt"
    /\ Valid(req)
    /\ apc' = "responded"
    /\ Respond(PromptCall(req.body, FALSE), o)
    /\ UNCHANGED req

\* def chat(req)
Chat(o) ==
    /\ apc = "received"
    /\ req.endpoint = "chat"
    /\ Valid(req)
    /\ apc' = "responded"
    /\ Respond(ChatCall(req.body), o)
    /\ UNCHANGED req

\* def stream(req): the StreamingResponse is returned with status 200 and
\* event_gen makes the upstream call (the relay itself is specification Spec)
Stream ==
    /\ apc = "received"
    /\ req.endpoint = "stream"
    /\ Valid(req)
    /\ apc' = "responded"
    /\ status' = 200
    /\ reply' = [kind |-> "event stream"]
    /\ calls' = Append(calls, PromptCall(req.body, TRUE))
    /\ UNCHANGED req

\* the response is sent; the next request can arrive
ApiDone ==
    /\ apc = "responded"
    /\ apc' = "idle"
    /\ req' = NoReq
    /\ status' = 0
    /\ calls' = <<>>
    /\ reply' = NoReply

---------------------------------------------------------------------------
(* The specifications.                                                     *)

Init == StreamInit /\ ApiInit /\ ExtractInit

Next ==
    \/ OpenStream /\ UNCHANGED apiVars /\ UNCHANGED extractVars
    \/ \E m \in ErrMsgs : OpenRaise(m) /\ UNCHANGED apiVars /\ UNCHANGED extractVars
    \/ \E e \in UpstreamEvents : OnEvent(e) /\ UNCHANGED apiVars /\ UNCHANGED extractVars
    \/ \E m \in ErrMsgs : IterRaise(m) /\ UNCHANGED apiVars /\ UNCHANGED extractVars
    \/ Exhausted /\ UNCHANGED apiVars /\ UNCHANGED extractVars

Spec == Init /\ [][Next]_vars

NextApi ==
    \/ Receive("prompt", PromptBodies) /\ UNCHANGED streamVars /\ UNCHANGED extractVars
    \/ Receive("stream", PromptBodies) /\ UNCHANGED streamVars /\ UNCHANGED extractVars
    \/ Receive("chat", ChatBodies) /\ UNCHANGED streamVars /\ UNCHANGED extractVars
    \/ Reject /\ UNCHANGED streamVars /\ UNCHANGED extractVars
    \/ \E o \in UpstreamOutcomes : Prompt(o) /\ UNCHANGED streamVars /\ UNCHANGED extractVars
    \/ \E o \in UpstreamOutcomes : Chat(o) /\ UNCHANGED streamVars /\ UNCHANGED extractVars
    \/ Stream /\ UNCHANGED streamVars /\ UNCHANGED extractVars
    \/ ApiDone /\ UNCHANGED streamVars /\ UNCHANGED extractVars

SpecApi == Init /\ [][NextApi]_vars

NextExtract ==
    \/ Extract /\ UNCHANGED streamVars /\ UNCHANGED apiVars
    \/ ExtractDone /\ UNCHANGED streamVars /\ UNCHANGED apiVars

SpecExtract == Init /\ [][NextExtract]_vars

---------------------------------------------------------------------------
(* Helpers of the properties. They restate what the specification says in  *)
(* their own terms and use none of the operators that model the code.      *)

\* parts joined with sep between neighbours (sep = <<>>: concatenation)
RECURSIVE Joined(_, _)
Joined(parts, sep) ==
    IF parts = <<>> THEN <<>>
    ELSE IF Len(parts) = 1 THEN parts[1]
    ELSE Joined(SubSeq(parts, 1, Len(parts) - 1), sep) \o sep \o parts[Len(parts)]

Terminal(frame) == frame.key \in {"final", "error"}

IsCompletion(e) == e.type = "response.completed"

\* an incremental-text event with a non-empty fragment
IsFragment(e) ==
    /\ e.type = "response.output_text.delta"
    /\ e.delta.t = "str"
    /\ e.delta.v # <<>>

\* the fragments d1..dn of the upstream events evs
FragmentsOf(evs) ==
    LET fr == SelectSeq(evs, IsFragment)
    IN  [i \in DOMAIN fr |-> fr[i].delta.v]

\* {delta: d1}, ..., {delta: dn}
DeltaFramesOf(evs) ==
    [i \in DOMAIN FragmentsOf(evs) |->
        [event |-> "message", key |-> "delta", value |-> FragmentsOf(evs)[i]]]

\* exactly one completion event, and it is the last event
EndsWithOnlyCompletion(evs) ==
    /\ evs # <<>>
    /\ IsCompletion(evs[Len(evs)])
    /\ \A i \in 1..(Len(evs) - 1) : ~IsCompletion(evs[i])

---------------------------------------------------------------------------
(* Properties of the /stream relay, checked under Spec.                    *)

\* C1: the relay emits at most one terminal ({final} or {error}) event,
\* whatever the upstream delivers.
C1_AtMostOneTerminal ==
    Cardinality({i \in DOMAIN out : Terminal(out[i])}) <= 1

\* C2: once a {final} or {error} event has been emitted, no {delta} event
\* is emitted afterwards.
C2_NoDeltaAfterTerminal ==
    \A i, j \in DOMAIN out :
        (i < j /\ Terminal(out[i])) => out[j].key # "delta"

\* C3: when the upstream delivers fragments d1..dn (among empty deltas and
\* other events), then exactly one completion event, and ends without an
\* error, the relay has emitted exactly {delta: d1}, ..., {delta: dn},
\* {final: d1 ++ ... ++ dn}.
C3_DeltasThenFinal ==
    (pc = "done" /\ ~raised /\ EndsWithOnlyCompletion(fed))
    => out = DeltaFramesOf(fed) \o
             <<[event |-> "message", key |-> "final",
                value |-> Joined(FragmentsOf(fed), <<>>)]>>

C3_Witness ==
    /\ pc = "done"
    /\ ~raised
    /\ fed = <<[type |-> DELTA, delta |-> PyStr(He)],
               [type |-> DELTA, delta |-> PyStr(<<>>)],
               [type |-> DELTA, delta |-> PyStr(llo)],
               [type |-> COMPLETED, delta |-> Absent]>>
    /\ out = <<[event |-> "message", key |-> "delta", value |-> <<"H", "e">>],
               [event |-> "message", key |-> "delta", value |-> <<"l", "l", "o">>],
               [event |-> "message", key |-> "final",
                value |-> <<"H", "e", "l", "l", "o">>]>>

\* C4: when the upstream raises after k >= 0 fragments and before any
\* completion event (k = 0 includes a failure to open the stream), the
\* relay has emitted exactly the k {delta} events and then one {error}
\* event with the error's message, and no {final} event.
C4_DeltasThenError ==
    (pc = "done" /\ raised /\ \A i \in DOMAIN fed : ~IsCompletion(fed[i]))
    => out = DeltaFramesOf(fed) \o
             <<[event |-> "error", key |-> "error", value |-> errmsg]>>

C4_Witness ==
    /\ pc = "done"
    /\ raised
    /\ fed = <<[type |-> DELTA, delta |-> PyStr(He)]>>
    /\ out = <<[event |-> "message", key |-> "delta", value |-> <<"H", "e">>],
               [event |-> "error", key |-> "error",
                value |-> <<"b", "o", "o", "m">>]>>

\* C10: the relay never ends its output without a terminal event: when the
\* generator is done, a {final} or an {error} event has been emitted.
C10_EndsWithTerminal ==
    pc = "done" => \E i \in DOMAIN out : Terminal(out[i])

---------------------------------------------------------------------------
(* Properties of validation and the handlers, checked under SpecApi.       *)

\* the request without its max_output_tokens field
WithoutTokens(r) == [r EXCEPT !.body.max_output_tokens = Absent]

\* C5: on /prompt, /chat and /stream, max_output_tokens 0 or 8193 is
\* rejected with no upstream call, 1 or 8192 is accepted (the rest of the
\* body being valid), and every upstream call carries a value in 1..8192.
C5_TokenLimits ==
    apc = "responded" =>
        /\ req.body.max_output_tokens \in {PyInt(0), PyInt(8193)}
              => (status = 422 /\ calls = <<>>)
        /\ (req.body.max_output_tokens \in {PyInt(1), PyInt(8192)}
              /\ Valid(WithoutTokens(req)))
              => status # 422
        /\ \A i \in DOMAIN calls :
              /\ calls[i].max_output_tokens.t = "int"
              /\ calls[i].max_output_tokens.v \in 1..8192

\* the required content of the request is empty
EmptyContent(r) ==
    \/ r.endpoint = "chat" /\ r.body.messages = PyList(<<>>)
    \/ r.endpoint \in {"prompt", "stream"} /\ r.body.prompt = PyStr(<<>>)

\* C6: a /chat request with messages = [] and a /prompt or /stream request
\* with prompt = "" is rejected with a client-error status before any
\* upstream call.
C6_EmptyContentRejected ==
    (apc = "responded" /\ EmptyContent(req))
    => (status = 422 /\ calls = <<>>)

HasUnknownRole(r) ==
    /\ r.endpoint = "chat"
    /\ r.body.messages.t = "list"
    /\ \E i \in DOMAIN r.body.messages.v :
          r.body.messages.v[i].role \notin AllowedRoles

\* C7: a /chat request with a role outside {system, developer, user,
\* assistant} at any position is rejected and makes no upstream call; so a
\* /chat request that reaches the upstream has only the four roles.
C7_UnknownRoleRejected ==
    apc = "responded" =>
        /\ HasUnknownRole(req) => (status = 422 /\ calls = <<>>)
        /\ (req.endpoint = "chat" /\ calls # <<>>) => ~HasUnknownRole(req)

C7_Witness ==
    /\ apc = "responded"
    /\ req.endpoint = "chat"
    /\ req.body.messages =
          PyList(<<[role |-> "user", content |-> <<"a">>],
                   [role |-> "tool", content |-> <<"b">>],
                   [role |-> "assistant", content |-> <<"a">>]>>)
    /\ req.body.max_output_tokens = Absent
    /\ req.body.temperature = Absent
    /\ status = 422
    /\ calls = <<>>

IsInstruction(m) == m.role \in {"system", "developer"}
IsTurn(m) == m.role \in {"user", "assistant"}
TurnLine(m) ==
    (IF m.role = "user" THEN <<"U", "s", "e", "r">>
     ELSE <<"A", "s", "s", "i", "s", "t", "a", "n", "t">>)
    \o <<":", " ">> \o m.content

\* the instructions of the specification's Folded Transcript
FoldedInstructions(msgs) ==
    LET sys == SelectSeq(msgs, IsInstruction)
    IN  IF sys = <<>> THEN PyNone
        ELSE PyStr(Joined([i \in DOMAIN sys |-> sys[i].content], <<"\n">>))

\* the conversation of the specification's Folded Transcript
FoldedConversation(msgs) ==
    LET turns == SelectSeq(msgs, IsTurn)
    IN  IF turns = <<>> THEN <<>>
        ELSE Joined([i \in DOMAIN turns |-> TurnLine(turns[i])], <<"\n">>)

\* C8: /chat passes upstream the folded transcript, a function of the
\* message sequence alone: instructions is the newline-join of the
\* system/developer contents in order, or None when there is none;
\* conversation is the newline-join of the "User: " / "Assistant: " lines
\* of the user/assistant messages in order, or "" when there is none.
C8_FoldIsOrderPreserving ==
    (apc = "responded" /\ req.endpoint = "chat" /\ status # 422)
    => /\ Len(calls) = 1
       /\ calls[1].instructions = FoldedInstructions(req.body.messages.v)
       /\ calls[1].input = FoldedConversation(req.body.messages.v)
       /\ (\A i \in DOMAIN req.body.messages.v : IsTurn(req.body.messages.v[i]))
             => calls[1].instructions = PyNone
       /\ (\A i \in DOMAIN req.body.messages.v :
                IsInstruction(req.body.messages.v[i]))
             => calls[1].input = <<>>

C8_Witness ==
    /\ apc = "responded"
    /\ req.endpoint = "chat"
    /\ status = 200
    /\ req.body.messages =
          PyList(<<[role |-> "user", content |-> <<"a">>],
                   [role |-> "system", content |-> <<"b">>],
                   [role |-> "assistant", content |-> <<"b">>]>>)
    /\ Len(calls) = 1
    /\ calls[1].instructions = PyStr(<<"b">>)
    /\ calls[1].input = <<"U", "s", "e", "r", ":", " ", "a", "\n",
                          "A", "s", "s", "i", "s", "t", "a", "n", "t", ":", " ",
                          "b">>

---------------------------------------------------------------------------
(* Properties of _out_text_from_response, checked under SpecExtract.       *)

\* the consolidated text is present and not blank
NonBlank(v) ==
    /\ v.t = "str"
    /\ \E i \in DOMAIN v.v : v.v[i] \notin {" ", "\n", "\t"}

\* the item carries a text value: item.text.value is a non-empty string
CarriesText(item) ==
    /\ item.text.t = "obj"
    /\ item.text.value.t = "str"
    /\ item.text.value.v # <<>>

\* the item carries a value that is true but no string
CarriesNonText(item) ==
    /\ item.text.t = "obj"
    /\ item.text.value.t = "int"
    /\ item.text.value.v # 0

ItemsOf(r) == IF r.output.t = "list" THEN r.output.v ELSE <<>>

CarriedTexts(r) ==
    LET c == SelectSeq(ItemsOf(r), CarriesText)
    IN  [i \in DOMAIN c |-> c[i].text.value.v]

====
